---- MODULE Spec2Model ----
(***************************************************************************)
(* A model of the JSON data manager of main.go: the DataManager with its   *)
(* two ingestion passes (LoadDataInMemory, LoadDataInSplitMode), the typed *)
(* condition evaluators and matchConditions.                               *)
(*                                                                         *)
(* A source file is a sequence of lines, each line the text bufio.Scanner  *)
(* hands to the loop.  A Go value of type interface{} is a record          *)
(* [kind, num, str, bool] whose kind is the dynamic type ("float64",       *)
(* "int", "string", "bool", "nil"); a decoded record                       *)
(* (map[string]interface{}) is a function from field names to such values.*)
(***************************************************************************)
EXTENDS Integers, Sequences, FiniteSets, TLC

(***************************************************************************)
(* Go values held in an interface{}.                                       *)
(***************************************************************************)
Float64(n) == [kind |-> "float64", num |-> n, str |-> "", bool |-> FALSE]
GoInt(n)   == [kind |-> "int",     num |-> n, str |-> "", bool |-> FALSE]
GoString(s) == [kind |-> "string", num |-> 0, str |-> s,  bool |-> FALSE]
GoBool(b)  == [kind |-> "bool",    num |-> 0, str |-> "", bool |-> b]
GoNil      == [kind |-> "nil",     num |-> 0, str |-> "", bool |-> FALSE]

\* The empty map (also what a nil map reads as).
EmptyMap == <<>>

\* m with m[k] = v added or overwritten (Go: m[k] = v).
MapPut(m, k, v) == [x \in (DOMAIN m) \cup {k} |-> IF x = k THEN v ELSE m[x]]

(***************************************************************************)
(* Text helpers.  Ch(s, i) is the i-th byte of s, "" past its end.         *)
(***************************************************************************)
Ch(s, i) == IF i >= 1 /\ i <= Len(s) THEN SubSeq(s, i, i) ELSE ""

\* Whether the text lit stands in s at position i.
HasAt(s, i, lit) ==
    i >= 1 /\ i + Len(lit) - 1 <= Len(s) /\ SubSeq(s, i, i + Len(lit) - 1) = lit

Digits == {"0", "1", "2", "3", "4", "5", "6", "7", "8", "9"}

IsDigit(c) == c \in Digits

DigitVal(c) ==
    CASE c = "0" -> 0 [] c = "1" -> 1 [] c = "2" -> 2 [] c = "3" -> 3
      [] c = "4" -> 4 [] c = "5" -> 5 [] c = "6" -> 6 [] c = "7" -> 7
      [] c = "8" -> 8 [] c = "9" -> 9 [] OTHER -> 0

\* The first position >= i of s holding no digit.
RECURSIVE DigitsEnd(_, _)
DigitsEnd(s, i) == IF IsDigit(Ch(s, i)) THEN DigitsEnd(s, i + 1) ELSE i

\* The number written by the digits s[i..j-1].
RECURSIVE DigitsVal(_, _, _)
DigitsVal(s, i, j) ==
    IF j <= i THEN 0 ELSE DigitsVal(s, i, j - 1) * 10 + DigitVal(Ch(s, j - 1))

(***************************************************************************)
(* json.Unmarshal([]byte(line), &record) with record a                     *)
(* map[string]interface{}.  The modelled JSON subset: one object (or null) *)
(* whose members are strings without escapes, integers, true, false and    *)
(* null, with insignificant blanks; a repeated member name keeps the last  *)
(* value; any other text is a decode error.                                *)
(***************************************************************************)
IsSpace(c) == c \in {" ", "\t", "\r", "\n"}

RECURSIVE SkipWS(_, _)
SkipWS(s, i) == IF IsSpace(Ch(s, i)) THEN SkipWS(s, i + 1) ELSE i

\* The position of the quote closing a string whose body starts at i; 0 when
\* the text ends, or an escape begins, before it.
RECURSIVE StringEnd(_, _)
StringEnd(s, i) ==
    IF Ch(s, i) = "" \/ Ch(s, i) = "\\" THEN 0
    ELSE IF Ch(s, i) = "\"" THEN i
    ELSE StringEnd(s, i + 1)

ParseFail == [ok |-> FALSE, val |-> GoNil, next |-> 0]

ParseString(s, i) ==
    IF Ch(s, i) # "\"" THEN ParseFail
    ELSE LET e == StringEnd(s, i + 1)
         IN  IF e = 0 THEN ParseFail
             ELSE [ok |-> TRUE, val |-> GoString(SubSeq(s, i + 1, e - 1)),
                   next |-> e + 1]

ParseNumber(s, i) ==
    LET neg == Ch(s, i) = "-"
        b   == IF neg THEN i + 1 ELSE i
        e   == DigitsEnd(s, b)
    IN  IF e = b THEN ParseFail
        ELSE IF Ch(s, b) = "0" /\ e > b + 1 THEN ParseFail
        ELSE IF Ch(s, e) \in {".", "e", "E"} THEN ParseFail
        ELSE [ok |-> TRUE,
              val |-> Float64(IF neg THEN 0 - DigitsVal(s, b, e)
                                     ELSE DigitsVal(s, b, e)),
              next |-> e]

ParseValue(s, i) ==
    LET c == Ch(s, i)
    IN  IF c = "\"" THEN ParseString(s, i)
        ELSE IF c = "-" \/ IsDigit(c) THEN ParseNumber(s, i)
        ELSE IF HasAt(s, i, "true")
             THEN [ok |-> TRUE, val |-> GoBool(TRUE), next |-> i + 4]
        ELSE IF HasAt(s, i, "false")
             THEN [ok |-> TRUE, val |-> GoBool(FALSE), next |-> i + 5]
        ELSE IF HasAt(s, i, "null")
             THEN [ok |-> TRUE, val |-> GoNil, next |-> i + 4]
        ELSE ParseFail

DecodeError == [err |-> TRUE, record |-> EmptyMap]

\* The members of an object from position i (just before a member name),
\* added to acc; then the closing brace and nothing but blanks.
RECURSIVE ParseMembers(_, _, _)
ParseMembers(s, i, acc) ==
    LET k == ParseString(s, SkipWS(s, i))
    IN  IF ~k.ok THEN DecodeError
        ELSE LET c == SkipWS(s, k.next)
             IN  IF Ch(s, c) # ":" THEN DecodeError
                 ELSE LET v == ParseValue(s, SkipWS(s, c + 1))
                      IN  IF ~v.ok THEN DecodeError
                          ELSE LET d    == SkipWS(s, v.next)
                                   acc2 == MapPut(acc, k.val.str, v.val)
                               IN  IF Ch(s, d) = ","
                                     THEN ParseMembers(s, d + 1, acc2)
                                   ELSE IF Ch(s, d) = "}"
                                          /\ SkipWS(s, d + 1) = Len(s) + 1
                                     THEN [err |-> FALSE, record |-> acc2]
                                   ELSE DecodeError

UnmarshalText(line) ==
    LET i == SkipWS(line, 1)
    IN  IF HasAt(line, i, "null") /\ SkipWS(line, i + 4) = Len(line) + 1
          THEN [err |-> FALSE, record |-> EmptyMap]
        ELSE IF Ch(line, i) # "{" THEN DecodeError
        ELSE LET j == SkipWS(line, i + 1)
             IN  IF Ch(line, j) = "}"
                   THEN IF SkipWS(line, j + 1) = Len(line) + 1
                          THEN [err |-> FALSE, record |-> EmptyMap]
                          ELSE DecodeError
                   ELSE ParseMembers(line, j, EmptyMap)

(***************************************************************************)
(* time.Parse for the two layouts the evaluators use.  A parsed time is    *)
(* the tuple <<year, month, day, hour, minute, second, nanosecond>> (UTC); *)
(* After, Before and Equal compare such tuples in that order.              *)
(***************************************************************************)
NoTime == [ok |-> FALSE, t |-> <<0, 0, 0, 0, 0, 0, 0>>]

isLeap(year) == year % 4 = 0 /\ (year % 100 # 0 \/ year % 400 = 0)

daysIn(m, year) ==
    IF m = 2 THEN (IF isLeap(year) THEN 29 ELSE 28)
    ELSE IF m \in {4, 6, 9, 11} THEN 30 ELSE 31

\* The leading "2006-01-02" of a layout: four, two and two digits around
\* hyphens.  next is the position after the day.
ParseDatePrefix(s) ==
    LET shape == /\ \A i \in {1, 2, 3, 4, 6, 7, 9, 10} : IsDigit(Ch(s, i))
                 /\ Ch(s, 5) = "-" /\ Ch(s, 8) = "-"
        y == DigitsVal(s, 1, 5)
        m == DigitsVal(s, 6, 8)
        d == DigitsVal(s, 9, 11)
    IN  IF shape /\ m >= 1 /\ m <= 12 /\ d >= 1 /\ d <= daysIn(m, y)
          THEN [ok |-> TRUE, t |-> <<y, m, d, 0, 0, 0, 0>>]
          ELSE NoTime

RECURSIVE SkipSpaces(_, _)
SkipSpaces(s, i) == IF Ch(s, i) = " " THEN SkipSpaces(s, i + 1) ELSE i

RECURSIVE Pow10(_)
Pow10(k) == IF k <= 0 THEN 1 ELSE 10 * Pow10(k - 1)

\* time.Parse("2006-01-02", s)
ParseDate(s) ==
    LET p == ParseDatePrefix(s)
    IN  IF p.ok /\ Len(s) = 10 THEN p ELSE NoTime

\* time.Parse("2006-01-02 15:04:05", s): a run of blanks after the date, an
\* hour of one or two digits, two-digit minute and second, and the fraction
\* of a second the parser accepts after the seconds though the layout names
\* none.
ParseDateTime(s) ==
    LET p  == ParseDatePrefix(s)
        h  == SkipSpaces(s, 11)
        hn == IF IsDigit(Ch(s, h + 1)) THEN 2 ELSE 1
        hv == DigitsVal(s, h, h + hn)
        c1 == h + hn
        mv == DigitsVal(s, c1 + 1, c1 + 3)
        c2 == c1 + 3
        sv == DigitsVal(s, c2 + 1, c2 + 3)
        f  == c2 + 3
        frac == Ch(s, f) \in {".", ","} /\ IsDigit(Ch(s, f + 1))
        fe == IF frac THEN DigitsEnd(s, f + 1) ELSE f
        nd == IF fe - (f + 1) > 9 THEN 9 ELSE fe - (f + 1)
        ns == IF frac THEN DigitsVal(s, f + 1, f + 1 + nd) * Pow10(9 - nd) ELSE 0
    IN  IF /\ p.ok
           /\ h > 11 /\ IsDigit(Ch(s, h))
           /\ Ch(s, c1) = ":" /\ IsDigit(Ch(s, c1 + 1)) /\ IsDigit(Ch(s, c1 + 2))
           /\ Ch(s, c2) = ":" /\ IsDigit(Ch(s, c2 + 1)) /\ IsDigit(Ch(s, c2 + 2))
           /\ hv <= 23 /\ mv <= 59 /\ sv <= 59
           /\ fe = Len(s) + 1
          THEN [ok |-> TRUE, t |-> <<p.t[1], p.t[2], p.t[3], hv, mv, sv, ns>>]
          ELSE NoTime

RECURSIVE TimeBefore(_, _)
TimeBefore(a, b) ==
    IF a = <<>> THEN FALSE
    ELSE IF Head(a) # Head(b) THEN Head(a) < Head(b)
    ELSE TimeBefore(Tail(a), Tail(b))

TimeAfter(a, b) == TimeBefore(b, a)

TimeEqual(a, b) == a = b

\* strings.Contains
Contains(s, sub) == \E i \in 1..(Len(s) + 1) : HasAt(s, i, sub)

(***************************************************************************)
(* The typed condition evaluators.                                         *)
(***************************************************************************)
\* applyIntCondition with ">" taken for ">=".
applyIntConditionOrEqual(fieldValue, operator, value) ==
    IF fieldValue.kind # "float64" THEN FALSE
    ELSE IF value.kind # "int" THEN FALSE
    ELSE CASE operator = ">"  -> fieldValue.num >= value.num
           [] operator = ">=" -> fieldValue.num >= value.num
           [] operator = "<"  -> fieldValue.num < value.num
           [] operator = "<=" -> fieldValue.num <= value.num
           [] operator = "==" -> fieldValue.num = value.num
           [] OTHER -> FALSE

applyIntCondition(fieldValue, operator, value) ==
    IF fieldValue.kind # "float64" THEN FALSE
    ELSE IF value.kind # "int" THEN FALSE
    ELSE CASE operator = ">"  -> fieldValue.num > value.num
           [] operator = ">=" -> fieldValue.num >= value.num
           [] operator = "<"  -> fieldValue.num < value.num
           [] operator = "<=" -> fieldValue.num <= value.num
           [] operator = "==" -> fieldValue.num = value.num
           [] OTHER -> FALSE

applyStringCondition(fieldValue, operator, value) ==
    IF fieldValue.kind # "string" THEN FALSE
    ELSE IF value.kind # "string" THEN FALSE
    ELSE CASE operator = "contains" -> Contains(fieldValue.str, value.str)
           [] operator = "==" -> fieldValue.str = value.str
           [] OTHER -> FALSE

\* The switch both time evaluators end with.
CompareTimes(fieldVal, operator, compareVal) ==
    CASE operator = ">"  -> TimeAfter(fieldVal, compareVal)
      [] operator = ">=" -> TimeAfter(fieldVal, compareVal) \/ TimeEqual(fieldVal, compareVal)
      [] operator = "<"  -> TimeBefore(fieldVal, compareVal)
      [] operator = "<=" -> TimeBefore(fieldVal, compareVal) \/ TimeEqual(fieldVal, compareVal)
      [] operator = "==" -> TimeEqual(fieldVal, compareVal)
      [] OTHER -> FALSE

applyDateTimeCondition(fieldValue, operator, value) ==
    IF fieldValue.kind # "string" THEN FALSE
    ELSE IF ~ParseDateTime(fieldValue.str).ok THEN FALSE
    ELSE IF value.kind # "string" THEN FALSE
    ELSE IF ~ParseDateTime(value.str).ok THEN FALSE
    ELSE CompareTimes(ParseDateTime(fieldValue.str).t, operator,
                      ParseDateTime(value.str).t)

applyDateCondition(fieldValue, operator, value) ==
    IF fieldValue.kind # "string" THEN FALSE
    ELSE IF ~ParseDate(fieldValue.str).ok THEN FALSE
    ELSE IF value.kind # "string" THEN FALSE
    ELSE IF ~ParseDate(value.str).ok THEN FALSE
    ELSE CompareTimes(ParseDate(fieldValue.str).t, operator,
                      ParseDate(value.str).t)

applyBoolCondition(fieldValue, operator, value) ==
    IF fieldValue.kind # "bool" THEN FALSE
    ELSE IF value.kind # "bool" THEN FALSE
    ELSE CASE operator = "==" -> fieldValue.bool = value.bool
           [] OTHER -> FALSE

\* A FilterCondition.
FilterCondition(key, valueType, operator, value) ==
    [Key |-> key, ValueType |-> valueType, Operator |-> operator, Value |-> value]

\* The body of the loop of matchConditions for one condition: TRUE when the
\* loop goes on to the next condition, FALSE when it returns false.
matchOne(record, condition) ==
    IF condition.Key \notin DOMAIN record THEN FALSE
    ELSE LET fieldValue == record[condition.Key]
         IN  CASE condition.ValueType = "int" ->
                    applyIntCondition(fieldValue, condition.Operator, condition.Value)
               [] condition.ValueType = "string" ->
                    applyStringCondition(fieldValue, condition.Operator, condition.Value)
               [] condition.ValueType = "datetime" ->
                    applyDateTimeCondition(fieldValue, condition.Operator, condition.Value)
               [] condition.ValueType = "date" ->
                    applyDateCondition(fieldValue, condition.Operator, condition.Value)
               [] condition.ValueType = "bool" ->
                    applyBoolCondition(fieldValue, condition.Operator, condition.Value)
               [] OTHER -> FALSE

\* matchConditions returning after the first condition.
matchConditionsFirstOnly(record, conditions) ==
    IF conditions = <<>> THEN TRUE ELSE matchOne(record, Head(conditions))

RECURSIVE matchConditions(_, _)
matchConditions(record, conditions) ==
    IF conditions = <<>> THEN TRUE
    ELSE IF ~matchOne(record, Head(conditions)) THEN FALSE
    ELSE matchConditions(record, Tail(conditions))

(***************************************************************************)
(* The source lines of the model.  User1..User3 are the users.json of the  *)
(* README; User1Again carries User1's username a second time and no string *)
(* fullname; Truncated is a line cut short, which does not decode.         *)
(***************************************************************************)
User1 == "{\"username\": \"user1\", \"age\": 25, \"fullname\": \"James Brown\"}"
User2 == "{\"username\": \"user2\", \"age\": 35, \"fullname\": \"Alice Jameson\"}"
User3 == "{\"username\": \"user3\", \"age\": 40, \"fullname\": \"James Smith\"}"
User1Again == "{\"username\": \"user1\", \"age\": 52, \"fullname\": null}"
Truncated == "{\"username\": \"user4\", \"age\": "

ExampleFile == <<User1, User2, User3>>

\* The lines an editor of the file may append.
EditLines == {User1, User2, User1Again, Truncated}

\* json.Unmarshal([]byte(line), &record): the decode of each line of the
\* model is worked out once.
DecodeTable == [line \in EditLines \cup {User3} |-> UnmarshalText(line)]

Unmarshal(line) ==
    IF line \in DOMAIN DecodeTable THEN DecodeTable[line] ELSE UnmarshalText(line)

\* The longest file the model writes, in lines.
MaxLines == 3

\* The ceilings NewDataManager is given: one that two lines exceed and one
\* that holds the whole example file.
SmallCeiling == 100
LargeCeiling == 200

\* No pass starts once the counter is beyond this.
MaxUsage == 200

\* The modes NewDataManager is given: the two the passes know and one they
\* do not.
Modes == {"InMemory", "Split", "Unknown"}

KeyNames == {"username", "fullname", "email"}

\* The condition lists of the model: none, the two conditions of the README
\* and the same with a condition no example record meets.
AgeOver30 == FilterCondition("age", "int", ">", GoInt(30))
NameHasJames == FilterCondition("fullname", "string", "contains", GoString("James"))

ConditionLists == {<<>>, <<AgeOver30, NameHasJames>>}

(***************************************************************************)
(* State.  mode, maxRAMUsage, data, index and currentUsage are the fields  *)
(* of the DataManager; file is users.json as the file system holds it;     *)
(* last is what the call that has just returned gave back, with the        *)
(* counter it started from and the number of lines it took from the        *)
(* scanner; loaded tells whether a LoadDataInMemory has succeeded.         *)
(***************************************************************************)
VARIABLES mode, maxRAMUsage, data, index, currentUsage, file, last, loaded

dmVars == <<mode, maxRAMUsage, data, index, currentUsage, file, last, loaded>>

\* One evaluation of matchConditions: its arguments and, once it has
\* returned, its result.
VARIABLES argRecord, argConditions, matched

matchVars == <<argRecord, argConditions, matched>>

\* A reload running beside readers: mu is dm.mu (whether a writer holds it,
\* and the readers holding it), loader the goroutine inside
\* LoadDataInMemory (where it is, and its scanner position and temporary
\* structures), reader what each reader has read, installed the Dataset and
\* Index of the last load that returned nil.
VARIABLES mu, loader, reader, installed

concVars == <<mu, loader, reader, installed>>

vars == <<dmVars, matchVars, concVars>>

NoCall == [op |-> "none", keyName |-> "", conditions |-> <<>>, err |-> "nil",
           filteredData |-> <<>>, read |-> 0, usage0 |-> 0]

\* NewDataManager(maxRAMUsage, mode)
NewDataManager(max, m) ==
    /\ data = EmptyMap
    /\ maxRAMUsage = max
    /\ mode = m
    /\ index = EmptyMap
    /\ currentUsage = 0

NotMatched == [done |-> FALSE, value |-> FALSE]

\* No evaluation of matchConditions is under way.
MatchIdle ==
    /\ argRecord = EmptyMap
    /\ argConditions = <<>>
    /\ matched = NotMatched

Readers == {"r1", "r2"}

LoaderIdle == [pc |-> "idle", keyName |-> "", i |-> 0, usage0 |-> 0,
               tempData |-> EmptyMap, tempIndex |-> EmptyMap]

ReaderIdle == [pc |-> "idle", data |-> EmptyMap, index |-> EmptyMap]

\* No goroutine is inside the DataManager.
ConcIdle ==
    /\ mu = [writer |-> FALSE, readers |-> {}]
    /\ loader = LoaderIdle
    /\ reader = [r \in Readers |-> ReaderIdle]
    /\ installed = [data |-> EmptyMap, index |-> EmptyMap]

Init ==
    /\ \E max \in {SmallCeiling, LargeCeiling}, m \in Modes : NewDataManager(max, m)
    /\ file = [exists |-> TRUE, lines |-> ExampleFile]
    /\ last = NoCall
    /\ loaded = FALSE
    /\ MatchIdle
    /\ ConcIdle

(***************************************************************************)
(* The loop of LoadDataInMemory.                                           *)
(***************************************************************************)
\* The mode check of LoadDataInMemory copied unchanged into
\* LoadDataInSplitMode.
WrongModeCopied(m, wanted) == m # "InMemory"

\* if dm.mode != wanted
WrongMode(m, wanted) == m # wanted

\* key, ok := record[keyName].(string)
KeyOf(record, keyName) ==
    IF keyName \in DOMAIN record /\ record[keyName].kind = "string"
      THEN [ok |-> TRUE, key |-> record[keyName].str]
      ELSE [ok |-> FALSE, key |-> ""]

\* An insert that keeps the record a key already has.
InsertRecordOnce(tempData, key, record) ==
    IF key \in DOMAIN tempData THEN tempData ELSE MapPut(tempData, key, record)

\* tempData[key] = record
InsertRecord(tempData, key, record) == MapPut(tempData, key, record)

\* tempIndex[keyName][key] = len(tempData), the inner map made on first use.
InsertIndex(tempIndex, keyName, key, tempData) ==
    LET inner == IF keyName \in DOMAIN tempIndex THEN tempIndex[keyName] ELSE EmptyMap
    IN  MapPut(tempIndex, keyName, MapPut(inner, key, Cardinality(DOMAIN tempData)))

\* A counter of lines instead of bytes.
AccumulateLines(usage, line) == usage + 1

\* dm.currentUsage += int64(len(line))
Accumulate(usage, line) == usage + Len(line)

\* if dm.currentUsage > dm.maxRAMUsage
OverLimit(usage, max) == usage > max

\* Lines 68-77: the record stored under its key and the key given its
\* ordinal, when the record has a string under keyName.
StoreRecord(tempData, tempIndex, keyName, k, record) ==
    IF k.ok
      THEN [tempData  |-> InsertRecord(tempData, k.key, record),
            tempIndex |-> InsertIndex(tempIndex, keyName, k.key,
                                      InsertRecord(tempData, k.key, record))]
      ELSE [tempData |-> tempData, tempIndex |-> tempIndex]

\* The scanner loop from line i on.  The result carries the error ("nil",
\* "decode" or "memory"), the temporary structures, the counter and the
\* number of lines taken from the scanner.
RECURSIVE ScanInMemory(_, _, _, _, _, _, _)
RECURSIVE ScanStored(_, _, _, _, _, _)
\* Lines 80-83 for line i, whose record is stored in temp, and the lines
\* after it.
ScanStored(lines, i, keyName, temp, usage, max) ==
    IF OverLimit(usage, max)
      THEN [err |-> "memory", tempData |-> temp.tempData,
            tempIndex |-> temp.tempIndex, usage |-> usage, read |-> i]
      ELSE ScanInMemory(lines, i + 1, keyName, temp.tempData, temp.tempIndex,
                        usage, max)

ScanInMemory(lines, i, keyName, tempData, tempIndex, usage, max) ==
    IF i > Len(lines)
      THEN [err |-> "nil", tempData |-> tempData, tempIndex |-> tempIndex,
            usage |-> usage, read |-> Len(lines)]
    ELSE LET dec == Unmarshal(lines[i])
         IN  IF dec.err
               THEN [err |-> "decode", tempData |-> tempData, tempIndex |-> tempIndex,
                     usage |-> usage, read |-> i]
               ELSE ScanStored(lines, i, keyName,
                               StoreRecord(tempData, tempIndex, keyName,
                                           KeyOf(dec.record, keyName), dec.record),
                               Accumulate(usage, lines[i]), max)

\* A load that installs its temporary structures whatever the scan returned.
CommitLoadAlways(old, scan) == [data |-> scan.tempData, index |-> scan.tempIndex]

\* What the DataManager holds when the call returns: the temporary
\* structures after a scan without error, the installed ones otherwise.
CommitLoad(old, scan) ==
    IF scan.err = "nil"
      THEN [data |-> scan.tempData, index |-> scan.tempIndex]
      ELSE old

\* dm.LoadDataInMemory("users.json", keyName)
LoadDataInMemory(keyName) ==
    /\ currentUsage <= MaxUsage
    /\ IF WrongMode(mode, "InMemory")
         THEN /\ last' = [NoCall EXCEPT !.op = "LoadDataInMemory", !.keyName = keyName,
                                        !.err = "mode", !.usage0 = currentUsage]
              /\ UNCHANGED <<data, index, currentUsage, loaded>>
       ELSE IF ~file.exists
         THEN /\ last' = [NoCall EXCEPT !.op = "LoadDataInMemory", !.keyName = keyName,
                                        !.err = "open", !.usage0 = currentUsage]
              /\ UNCHANGED <<data, index, currentUsage, loaded>>
       ELSE LET scan == ScanInMemory(file.lines, 1, keyName, EmptyMap, EmptyMap,
                                     currentUsage, maxRAMUsage)
                new  == CommitLoad([data |-> data, index |-> index], scan)
            IN  /\ data' = new.data
                /\ index' = new.index
                /\ currentUsage' = scan.usage
                /\ loaded' = (loaded \/ scan.err = "nil")
                /\ last' = [NoCall EXCEPT !.op = "LoadDataInMemory", !.keyName = keyName,
                                          !.err = scan.err, !.read = scan.read,
                                          !.usage0 = currentUsage]
    /\ UNCHANGED <<mode, maxRAMUsage, file>>
    /\ UNCHANGED <<matchVars, concVars>>

(***************************************************************************)
(* The loop of LoadDataInSplitMode.                                        *)
(***************************************************************************)
\* A match put in front of the matches collected so far.
PrependRecord(filteredData, record) == <<record>> \o filteredData

\* filteredData = append(filteredData, record)
AppendRecord(filteredData, record) == Append(filteredData, record)

RECURSIVE ScanSplit(_, _, _, _, _, _)
ScanSplit(lines, i, conditions, filteredData, usage, max) ==
    IF i > Len(lines)
      THEN [err |-> "nil", filteredData |-> filteredData, usage |-> usage,
            read |-> Len(lines)]
    ELSE LET line == lines[i]
             dec  == Unmarshal(line)
         IN  IF dec.err
               THEN [err |-> "decode", filteredData |-> <<>>, usage |-> usage, read |-> i]
             ELSE LET f2 == IF matchConditions(dec.record, conditions)
                              THEN AppendRecord(filteredData, dec.record)
                              ELSE filteredData
                      u2 == Accumulate(usage, line)
                  IN  IF OverLimit(u2, max)
                        THEN [err |-> "memory", filteredData |-> <<>>, usage |-> u2,
                              read |-> i]
                        ELSE ScanSplit(lines, i + 1, conditions, f2, u2, max)

\* dm.LoadDataInSplitMode("users.json", conditions)
LoadDataInSplitMode(conditions) ==
    /\ currentUsage <= MaxUsage
    /\ IF WrongMode(mode, "Split")
         THEN /\ last' = [NoCall EXCEPT !.op = "LoadDataInSplitMode",
                                        !.conditions = conditions,
                                        !.err = "mode", !.usage0 = currentUsage]
              /\ UNCHANGED currentUsage
       ELSE IF ~file.exists
         THEN /\ last' = [NoCall EXCEPT !.op = "LoadDataInSplitMode",
                                        !.conditions = conditions,
                                        !.err = "open", !.usage0 = currentUsage]
              /\ UNCHANGED currentUsage
       ELSE LET scan == ScanSplit(file.lines, 1, conditions, <<>>, currentUsage,
                                  maxRAMUsage)
            IN  /\ currentUsage' = scan.usage
                /\ last' = [NoCall EXCEPT !.op = "LoadDataInSplitMode",
                                          !.conditions = conditions,
                                          !.err = scan.err,
                                          !.filteredData = scan.filteredData,
                                          !.read = scan.read,
                                          !.usage0 = currentUsage]
    /\ UNCHANGED <<mode, maxRAMUsage, data, index, loaded, file>>
    /\ UNCHANGED <<matchVars, concVars>>

(***************************************************************************)
(* The file system: users.json is appended to, emptied or removed between  *)
(* calls.  A change of the file ends the observation of the last call.     *)
(***************************************************************************)
AppendLine(line) ==
    /\ file.exists
    /\ Len(file.lines) < MaxLines
    /\ file' = [file EXCEPT !.lines = Append(@, line)]
    /\ last' = NoCall
    /\ UNCHANGED <<mode, maxRAMUsage, data, index, currentUsage, loaded>>
    /\ UNCHANGED <<matchVars, concVars>>

EmptyFile ==
    /\ file' = [exists |-> TRUE, lines |-> <<>>]
    /\ file' # file
    /\ last' = NoCall
    /\ UNCHANGED <<mode, maxRAMUsage, data, index, currentUsage, loaded>>
    /\ UNCHANGED <<matchVars, concVars>>

RemoveFile ==
    /\ file.exists
    /\ file' = [exists |-> FALSE, lines |-> <<>>]
    /\ last' = NoCall
    /\ UNCHANGED <<mode, maxRAMUsage, data, index, currentUsage, loaded>>
    /\ UNCHANGED <<matchVars, concVars>>

Next ==
    \/ \E keyName \in KeyNames : LoadDataInMemory(keyName)
    \/ \E conditions \in ConditionLists : LoadDataInSplitMode(conditions)
    \/ \E line \in EditLines : AppendLine(line)
    \/ EmptyFile
    \/ RemoveFile

Spec == Init /\ [][Next]_vars

(***************************************************************************)
(* matchConditions on its own: a record and a condition list are chosen,   *)
(* then the function is applied.  The records hold the fields the          *)
(* conditions of main name, with values of the right and of the wrong      *)
(* kind; a first condition is any combination of key, declared type,       *)
(* operator and comparison value, and lists grow from the conditions of    *)
(* main.                                                                   *)
(***************************************************************************)
MatchRecords ==
    { [age |-> Float64(35), fullname |-> GoString("Alice Jameson"),
       status |-> GoBool(FALSE), ent_dt |-> GoString("2024-09-03 09:00:00"),
       birthday |-> GoString("1999-12-31")],
      [age |-> Float64(30), fullname |-> GoString("James"),
       status |-> GoBool(TRUE), ent_dt |-> GoString("2024-01-01 00:00:00"),
       birthday |-> GoString("2000-01-01")],
      [age |-> GoString("35"), fullname |-> GoNil,
       status |-> GoString("false"), ent_dt |-> GoString("2024-09-03"),
       birthday |-> GoString("2000-02-30")] }

ConditionKeys == {"age", "fullname", "status", "ent_dt", "birthday", "missing"}

ValueTypes == {"int", "string", "datetime", "date", "bool", "float"}

Operators == {">", ">=", "<", "<=", "==", "contains", "!="}

CompareValues ==
    {GoInt(30), Float64(30), GoString("James"), GoString("2024-01-01 00:00:00"),
     GoString("2000-01-01"), GoBool(FALSE)}

AnyCondition ==
    {FilterCondition(k, t, o, v) :
        k \in ConditionKeys, t \in ValueTypes, o \in Operators, v \in CompareValues}

\* The conditions main builds, and one on a field no record has.
StatusIsFalse == FilterCondition("status", "bool", "==", GoBool(FALSE))
EnteredAt == FilterCondition("ent_dt", "datetime", "==", GoString("2024-09-03 09:00:00"))
MissingOver30 == FilterCondition("missing", "int", ">", GoInt(30))

MainConditions == {AgeOver30, NameHasJames, StatusIsFalse, EnteredAt, MissingOver30}

\* The longest condition list, in conditions.
MaxConditions == 3

InitMatch ==
    /\ NewDataManager(LargeCeiling, "Split")
    /\ file = [exists |-> TRUE, lines |-> ExampleFile]
    /\ last = NoCall
    /\ loaded = FALSE
    /\ argRecord \in MatchRecords
    /\ argConditions = <<>>
    /\ matched = NotMatched
    /\ ConcIdle

\* A first condition of any shape.
FirstCondition(condition) ==
    /\ argConditions = <<>>
    /\ argConditions' = <<condition>>
    /\ matched' = NotMatched
    /\ UNCHANGED <<argRecord, dmVars, concVars>>

\* One more of main's conditions on a list of main's conditions.
AddCondition(condition) ==
    /\ Len(argConditions) < MaxConditions
    /\ \A i \in 1..Len(argConditions) : argConditions[i] \in MainConditions
    /\ argConditions' = Append(argConditions, condition)
    /\ matched' = NotMatched
    /\ UNCHANGED <<argRecord, dmVars, concVars>>

\* dm.matchConditions(record, conditions)
Match ==
    /\ ~matched.done
    /\ matched' = [done |-> TRUE, value |-> matchConditions(argRecord, argConditions)]
    /\ UNCHANGED <<argRecord, argConditions, dmVars, concVars>>

NextMatch ==
    \/ \E condition \in AnyCondition : FirstCondition(condition)
    \/ \E condition \in MainConditions : AddCondition(condition)
    \/ Match

SpecMatch == InitMatch /\ [][NextMatch]_vars

(***************************************************************************)
(* LoadDataInMemory step by step, beside readers.  The loader scans the    *)
(* file a line at a time into its temporary structures, then takes dm.mu,  *)
(* assigns dm.data, assigns dm.index and releases dm.mu.  A reader takes   *)
(* the shared lock, reads dm.data, reads dm.index and releases the lock.   *)
(***************************************************************************)
\* dm.mu.RLock() taken by the loader in place of dm.mu.Lock().
CanLockShared(m) == ~m.writer

\* dm.mu.Lock() returns: no writer and no reader holds the lock.
CanLock(m) == ~m.writer /\ m.readers = {}

\* dm.mu.RLock() returns: no writer holds the lock.
CanRLock(m) == ~m.writer

Returned(keyName, err, read, usage0) ==
    [NoCall EXCEPT !.op = "LoadDataInMemory", !.keyName = keyName, !.err = err,
                   !.read = read, !.usage0 = usage0]

\* The call, up to the first scanner.Scan().
LoaderStart(keyName) ==
    /\ loader.pc = "idle"
    /\ currentUsage <= MaxUsage
    /\ IF WrongMode(mode, "InMemory")
         THEN /\ last' = Returned(keyName, "mode", 0, currentUsage)
              /\ UNCHANGED loader
       ELSE IF ~file.exists
         THEN /\ last' = Returned(keyName, "open", 0, currentUsage)
              /\ UNCHANGED loader
       ELSE /\ loader' = [LoaderIdle EXCEPT !.pc = "scan", !.keyName = keyName, !.i = 1,
                                          !.usage0 = currentUsage]
            /\ last' = NoCall
    /\ UNCHANGED <<mode, maxRAMUsage, data, index, currentUsage, file, loaded>>
    /\ UNCHANGED <<mu, reader, installed, matchVars>>

\* One turn of the scanner loop.
LoaderScanLine ==
    /\ loader.pc = "scan"
    /\ file.exists /\ loader.i <= Len(file.lines)
    /\ LET line == file.lines[loader.i]
           dec  == Unmarshal(line)
           k    == KeyOf(dec.record, loader.keyName)
           d2   == IF k.ok THEN InsertRecord(loader.tempData, k.key, dec.record)
                           ELSE loader.tempData
           x2   == IF k.ok THEN InsertIndex(loader.tempIndex, loader.keyName, k.key, d2)
                           ELSE loader.tempIndex
           u2   == Accumulate(currentUsage, line)
       IN  IF dec.err
             THEN /\ loader' = LoaderIdle
                  /\ last' = Returned(loader.keyName, "decode", loader.i, loader.usage0)
                  /\ UNCHANGED currentUsage
           ELSE /\ currentUsage' = u2
                /\ IF OverLimit(u2, maxRAMUsage)
                     THEN /\ loader' = LoaderIdle
                          /\ last' = Returned(loader.keyName, "memory", loader.i, loader.usage0)
                     ELSE /\ loader' = [loader EXCEPT !.i = @ + 1, !.tempData = d2,
                                                      !.tempIndex = x2]
                          /\ UNCHANGED last
    /\ UNCHANGED <<mode, maxRAMUsage, data, index, file, loaded>>
    /\ UNCHANGED <<mu, reader, installed, matchVars>>

\* scanner.Scan() returns false.
LoaderScanEnd ==
    /\ loader.pc = "scan"
    /\ ~file.exists \/ loader.i > Len(file.lines)
    /\ loader' = [loader EXCEPT !.pc = "lock"]
    /\ UNCHANGED <<dmVars, mu, reader, installed, matchVars>>

\* dm.mu.Lock()
LoaderLock ==
    /\ loader.pc = "lock"
    /\ CanLock(mu)
    /\ mu' = [mu EXCEPT !.writer = TRUE]
    /\ loader' = [loader EXCEPT !.pc = "data"]
    /\ UNCHANGED <<dmVars, reader, installed, matchVars>>

\* dm.data = tempData
LoaderSetData ==
    /\ loader.pc = "data"
    /\ data' = loader.tempData
    /\ loader' = [loader EXCEPT !.pc = "index"]
    /\ UNCHANGED <<mode, maxRAMUsage, index, currentUsage, file, last, loaded>>
    /\ UNCHANGED <<mu, reader, installed, matchVars>>

\* dm.index = tempIndex
LoaderSetIndex ==
    /\ loader.pc = "index"
    /\ index' = loader.tempIndex
    /\ loader' = [loader EXCEPT !.pc = "unlock"]
    /\ UNCHANGED <<mode, maxRAMUsage, data, currentUsage, file, last, loaded>>
    /\ UNCHANGED <<mu, reader, installed, matchVars>>

\* dm.mu.Unlock(); return nil
LoaderUnlock ==
    /\ loader.pc = "unlock"
    /\ mu' = [mu EXCEPT !.writer = FALSE]
    /\ installed' = [data |-> loader.tempData, index |-> loader.tempIndex]
    /\ loaded' = TRUE
    /\ last' = Returned(loader.keyName, "nil", loader.i - 1, loader.usage0)
    /\ loader' = LoaderIdle
    /\ UNCHANGED <<mode, maxRAMUsage, data, index, currentUsage, file>>
    /\ UNCHANGED <<reader, matchVars>>

\* A reader: dm.mu.RLock()
ReaderRLock(r) ==
    /\ reader[r].pc = "idle"
    /\ CanRLock(mu)
    /\ mu' = [mu EXCEPT !.readers = @ \cup {r}]
    /\ reader' = [reader EXCEPT ![r] = [ReaderIdle EXCEPT !.pc = "data"]]
    /\ UNCHANGED <<dmVars, loader, installed, matchVars>>

\* The reader reads dm.data.
ReaderReadData(r) ==
    /\ reader[r].pc = "data"
    /\ reader' = [reader EXCEPT ![r].data = data, ![r].pc = "index"]
    /\ UNCHANGED <<dmVars, mu, loader, installed, matchVars>>

\* The reader reads dm.index.
ReaderReadIndex(r) ==
    /\ reader[r].pc = "index"
    /\ reader' = [reader EXCEPT ![r].index = index, ![r].pc = "unlock"]
    /\ UNCHANGED <<dmVars, mu, loader, installed, matchVars>>

\* The reader: dm.mu.RUnlock()
ReaderRUnlock(r) ==
    /\ reader[r].pc = "unlock"
    /\ mu' = [mu EXCEPT !.readers = @ \ {r}]
    /\ reader' = [reader EXCEPT ![r] = ReaderIdle]
    /\ UNCHANGED <<dmVars, loader, installed, matchVars>>

InitConc ==
    /\ \E max \in {SmallCeiling, LargeCeiling}, m \in Modes : NewDataManager(max, m)
    /\ file = [exists |-> TRUE, lines |-> <<User1>>]
    /\ last = NoCall
    /\ loaded = FALSE
    /\ MatchIdle
    /\ ConcIdle

NextConc ==
    \/ \E keyName \in KeyNames : LoaderStart(keyName)
    \/ LoaderScanLine
    \/ LoaderScanEnd
    \/ LoaderLock
    \/ LoaderSetData
    \/ LoaderSetIndex
    \/ LoaderUnlock
    \/ \E r \in Readers : ReaderRLock(r)
    \/ \E r \in Readers : ReaderReadData(r)
    \/ \E r \in Readers : ReaderReadIndex(r)
    \/ \E r \in Readers : ReaderRUnlock(r)
    \/ \E line \in EditLines : AppendLine(line)
    \/ RemoveFile

SpecConc == InitConc /\ [][NextConc]_vars

(***************************************************************************)
(* What the claims are stated against: the records the source lines say,   *)
(* written out by hand, and the byte counts of a source.                   *)
(***************************************************************************)
\* Whether a line is a JSON object.
WellFormed(line) == line # Truncated

\* The record a well-formed line says, field for field.
LineSays(line) ==
    CASE line = User1 -> [username |-> GoString("user1"), age |-> Float64(25),
                          fullname |-> GoString("James Brown")]
      [] line = User2 -> [username |-> GoString("user2"), age |-> Float64(35),
                          fullname |-> GoString("Alice Jameson")]
      [] line = User3 -> [username |-> GoString("user3"), age |-> Float64(40),
                          fullname |-> GoString("James Smith")]
      [] line = User1Again -> [username |-> GoString("user1"), age |-> Float64(52),
                               fullname |-> GoNil]
      [] OTHER -> EmptyMap

\* Whether line i of the source carries a string under keyName.
HasKey(lines, i, keyName) ==
    /\ WellFormed(lines[i])
    /\ keyName \in DOMAIN LineSays(lines[i])
    /\ LineSays(lines[i])[keyName].kind = "string"

KeyAt(lines, i, keyName) == LineSays(lines[i])[keyName].str

\* The bytes of the first k lines.
RECURSIVE PrefixBytes(_, _)
PrefixBytes(lines, k) == IF k = 0 THEN 0 ELSE PrefixBytes(lines, k - 1) + Len(lines[k])

\* The first k lines all decode.
PrefixDecodes(lines, k) == \A i \in 1..k : WellFormed(lines[i])

\* The lines at which the running count of a fresh pass is over the ceiling.
OverAt(lines, max) ==
    {k \in 1..Len(lines) : PrefixDecodes(lines, k) /\ PrefixBytes(lines, k) > max}

Least(S) == CHOOSE k \in S : \A j \in S : k <= j

IsLoad == last.op = "LoadDataInMemory"

IsSplit == last.op = "LoadDataInSplitMode"

\* The call that has just returned got past the mode check and opened the file.
Scanned == (IsLoad \/ IsSplit) /\ last.err \notin {"mode", "open"}

\* The keys of the installed Index under keyName (no entry: no keys).
IndexOf(keyName) == IF keyName \in DOMAIN index THEN index[keyName] ELSE EmptyMap

(***************************************************************************)
(* C1: once a LoadDataInMemory has succeeded, a LoadDataInMemory that      *)
(* fails (file missing, a line that does not decode, ceiling exceeded)     *)
(* leaves data and index as they were before the call.                     *)
(***************************************************************************)
C1_FailedLoadKeepsData ==
    [][(loaded /\ last'.op = "LoadDataInMemory" /\ last'.err # "nil")
         => (data' = data /\ index' = index)]_vars

C1_Witness ==
    /\ loaded /\ IsLoad /\ last.err = "decode"
    /\ last.read > 1
    /\ DOMAIN data # {}

(***************************************************************************)
(* C3: a pass fails with the memory-limit error exactly when the bytes of  *)
(* its own source exceed the ceiling, whatever earlier passes consumed     *)
(* (stated for sources whose lines all decode).                            *)
(***************************************************************************)
C3_CounterPerPass ==
    (Scanned /\ PrefixDecodes(file.lines, Len(file.lines)))
      => (last.err = "memory" <=> PrefixBytes(file.lines, Len(file.lines)) > maxRAMUsage)

(***************************************************************************)
(* C4: on a DataManager whose counter is still zero, a pass fails with the *)
(* memory-limit error exactly when the running count of the lines read so  *)
(* far exceeds the ceiling, at the first such line, without reading the    *)
(* lines after it; LoadDataInMemory then has installed nothing and         *)
(* LoadDataInSplitMode returns no records.                                 *)
(***************************************************************************)
C4_CeilingPerLine ==
    (Scanned /\ last.usage0 = 0)
      => LET over == OverAt(file.lines, maxRAMUsage)
         IN  /\ (last.err = "memory") <=> (over # {})
             /\ over # {} =>
                  /\ last.read = Least(over)
                  /\ currentUsage = PrefixBytes(file.lines, Least(over))
                  /\ data = EmptyMap /\ index = EmptyMap
                  /\ last.filteredData = <<>>

C4_Witness ==
    /\ Scanned /\ last.usage0 = 0 /\ last.err = "memory"
    /\ last.read < Len(file.lines)

(***************************************************************************)
(* C5: no step changes mode; a LoadDataInMemory on a manager not in        *)
(* "InMemory" mode, and a LoadDataInSplitMode on one not in "Split" mode,  *)
(* return the mode error whatever the file holds or whether it exists, and *)
(* change neither data, index nor the counter.                             *)
(***************************************************************************)
C5_ModeFixedAndChecked ==
    [][/\ mode' = mode
       /\ (last'.op = "LoadDataInMemory" /\ mode # "InMemory")
            => (last'.err = "mode" /\ UNCHANGED <<data, index, currentUsage>>)
       /\ (last'.op = "LoadDataInSplitMode" /\ mode # "Split")
            => (last'.err = "mode" /\ last'.filteredData = <<>>
                /\ UNCHANGED <<data, index, currentUsage>>)]_vars

C5_Witness ==
    /\ IsLoad /\ mode = "Split" /\ last.err = "mode"
    /\ file.exists /\ Len(file.lines) > 0

(***************************************************************************)
(* C7: after a successful LoadDataInMemory the keys of data are exactly    *)
(* the string values of keyName in the source lines, and each key's record *)
(* is, field for field, what the (last) line carrying that key says.       *)
(***************************************************************************)
C7_RoundTrip ==
    (IsLoad /\ last.err = "nil")
      => LET lines == file.lines
             keyed == {i \in 1..Len(lines) : HasKey(lines, i, last.keyName)}
         IN  /\ DOMAIN data = {KeyAt(lines, i, last.keyName) : i \in keyed}
             /\ \A i \in keyed :
                  (\A j \in keyed : j > i => KeyAt(lines, j, last.keyName)
                                              # KeyAt(lines, i, last.keyName))
                    => data[KeyAt(lines, i, last.keyName)] = LineSays(lines[i])

C7_Witness ==
    /\ IsLoad /\ last.err = "nil" /\ last.keyName = "username"
    /\ file.lines = <<User1, User2, User1Again>>

(***************************************************************************)
(* C8: a LoadDataInSplitMode that returns without error returns the        *)
(* records of the source that meet all conditions, once each, in the order *)
(* of the lines (for the README's users.json and its two conditions:       *)
(* user2 and user3); when a line does not decode the call fails and        *)
(* returns no records.                                                     *)
(***************************************************************************)
RECURSIVE Matching(_, _, _)
Matching(lines, k, conditions) ==
    IF k = 0 THEN <<>>
    ELSE IF matchConditions(LineSays(lines[k]), conditions)
      THEN Append(Matching(lines, k - 1, conditions), LineSays(lines[k]))
      ELSE Matching(lines, k - 1, conditions)

C8_SplitReturnsMatches ==
    (IsSplit /\ Scanned)
      => /\ last.err = "nil"
              => last.filteredData = Matching(file.lines, Len(file.lines), last.conditions)
         /\ (last.err = "nil" /\ file.lines = ExampleFile
                 /\ last.conditions = <<AgeOver30, NameHasJames>>)
              => last.filteredData = <<LineSays(User2), LineSays(User3)>>
         /\ ~PrefixDecodes(file.lines, Len(file.lines))
              => (last.err # "nil" /\ last.filteredData = <<>>)

C8_Witness ==
    /\ IsSplit /\ last.err = "nil"
    /\ last.conditions # <<>>
    /\ Len(last.filteredData) = 2

(***************************************************************************)
(* C10: after a successful LoadDataInMemory the index under keyName has    *)
(* the keys of data and no two keys share an ordinal.                      *)
(***************************************************************************)
C10_IndexOrdinals ==
    (IsLoad /\ last.err = "nil")
      => /\ DOMAIN IndexOf(last.keyName) = DOMAIN data
         /\ \A k1, k2 \in DOMAIN IndexOf(last.keyName) :
              k1 # k2 => IndexOf(last.keyName)[k1] # IndexOf(last.keyName)[k2]

(***************************************************************************)
(* The operator table of the evaluators, and the dates and datetimes among *)
(* the strings of the model, ranked in time order (0: not one).            *)
(***************************************************************************)
OrderOperators == {">", ">=", "<", "<=", "=="}

TableOperators(valueType) ==
    CASE valueType \in {"int", "date", "datetime"} -> OrderOperators
      [] valueType = "string" -> {"==", "contains"}
      [] valueType = "bool" -> {"=="}
      [] OTHER -> {}

DateRank(s) ==
    CASE s = "1999-12-31" -> 1 [] s = "2000-01-01" -> 2 [] s = "2024-09-03" -> 3
      [] OTHER -> 0

DateTimeRank(s) ==
    CASE s = "2024-01-01 00:00:00" -> 1 [] s = "2024-09-03 09:00:00" -> 2
      [] OTHER -> 0

Compares(operator, a, b) ==
    CASE operator = ">" -> a > b [] operator = ">=" -> a >= b
      [] operator = "<" -> a < b [] operator = "<=" -> a <= b
      [] operator = "==" -> a = b [] OTHER -> FALSE

\* sub occurs in s.
OccursIn(sub, s) ==
    \E a \in 0..Len(s) : \E b \in a..Len(s) :
        a + Len(sub) = b /\ (a = b \/ SubSeq(s, a + 1, b) = sub)

\* The comparison of the field's value with the comparison value holds, the
\* field's value being of the JSON kind the declared type requires.
ComparisonHolds(f, c) ==
    LET v == c.Value
    IN  CASE c.ValueType = "int" ->
               /\ f.kind = "float64" /\ v.kind \in {"int", "float64"}
               /\ Compares(c.Operator, f.num, v.num)
          [] c.ValueType = "string" ->
               /\ f.kind = "string" /\ v.kind = "string"
               /\ \/ c.Operator = "==" /\ f.str = v.str
                  \/ c.Operator = "contains" /\ OccursIn(v.str, f.str)
          [] c.ValueType = "date" ->
               /\ f.kind = "string" /\ v.kind = "string"
               /\ DateRank(f.str) > 0 /\ DateRank(v.str) > 0
               /\ Compares(c.Operator, DateRank(f.str), DateRank(v.str))
          [] c.ValueType = "datetime" ->
               /\ f.kind = "string" /\ v.kind = "string"
               /\ DateTimeRank(f.str) > 0 /\ DateTimeRank(v.str) > 0
               /\ Compares(c.Operator, DateTimeRank(f.str), DateTimeRank(v.str))
          [] c.ValueType = "bool" ->
               /\ f.kind = "bool" /\ v.kind = "bool"
               /\ Compares(c.Operator, f.bool, v.bool)
          [] OTHER -> FALSE

TableSays(record, c) ==
    /\ c.Key \in DOMAIN record
    /\ c.Operator \in TableOperators(c.ValueType)
    /\ ComparisonHolds(record[c.Key], c)

\* The comparison value has the Go type the evaluator of the declared type
\* asserts.
GoTyped(c) ==
    CASE c.ValueType = "int" -> c.Value.kind = "int"
      [] c.ValueType = "bool" -> c.Value.kind = "bool"
      [] OTHER -> c.Value.kind = "string"

(***************************************************************************)
(* C6: matchConditions on a list of one condition returns true only when   *)
(* the field is present, its value has the kind the declared type          *)
(* requires, the operator is in the table for that type and the comparison *)
(* holds (and then it does return true, the comparison value being of the  *)
(* Go type the evaluator asserts); in every other case it returns false.   *)
(***************************************************************************)
C6_SingleConditionTable ==
    (matched.done /\ Len(argConditions) = 1)
      => /\ matched.value => TableSays(argRecord, argConditions[1])
         /\ (GoTyped(argConditions[1]) /\ TableSays(argRecord, argConditions[1]))
              => matched.value

C6_Witness ==
    /\ matched.done /\ Len(argConditions) = 1 /\ matched.value
    /\ argConditions[1].ValueType = "datetime" /\ argConditions[1].Operator = ">"

(***************************************************************************)
(* C9: matchConditions gives the same result for every reordering of the   *)
(* condition list, and that result is true exactly when each condition of  *)
(* the list holds for the record on its own; the empty list matches.       *)
(***************************************************************************)
Reorderings(n) == {p \in [1..n -> 1..n] : \A i, j \in 1..n : p[i] = p[j] => i = j}

C9_AndCommutative ==
    matched.done
      => LET n == Len(argConditions)
         IN  /\ \A p \in Reorderings(n) :
                  matchConditions(argRecord, [i \in 1..n |-> argConditions[p[i]]])
                    = matched.value
             /\ matched.value
                  <=> \A i \in 1..n : matchConditions(argRecord, <<argConditions[i]>>)

C9_Witness ==
    /\ matched.done /\ Len(argConditions) = 3
    /\ ~matched.value
    /\ matchConditions(argRecord, <<argConditions[1]>>)
    /\ matchConditions(argRecord, <<argConditions[2]>>)

(***************************************************************************)
(* C2: whatever the interleaving of a reload with readers holding the      *)
(* shared lock, the Dataset and Index a reader has read are those of one   *)
(* and the same load (or the empty ones of NewDataManager): the pair in    *)
(* place while it holds the lock, never the Dataset of one load with the   *)
(* Index of another, and never the loader's temporary structures.          *)
(***************************************************************************)
C2_ReadersSeeOneLoad ==
    \A r \in Readers :
        /\ reader[r].pc \in {"index", "unlock"} => reader[r].data = installed.data
        /\ reader[r].pc = "unlock" => reader[r].index = installed.index

C2_Witness ==
    \E r \in Readers :
        /\ reader[r].pc = "unlock"
        /\ DOMAIN reader[r].data # {}
        /\ loader.pc = "lock"
        /\ loader.tempData # reader[r].data

====
